---------------------------- MODULE Spec2Model ----------------------------
(***************************************************************************)
(* Model of the DeadText session and turn engine: the session cache        *)
(* (GameStateManager), the durable store (Database: players, game_history, *)
(* rate_limits), the turn engine (GameLogic.process_turn), the keyword      *)
(* classifier (ScenarioGenerator.process_action) and the text handler       *)
(* (TelegramHandler.handle_text_input).                                     *)
(*                                                                         *)
(* food and water are Python numbers that become fractional; the model     *)
(* keeps them exactly, in units of 1/Scale.  Texts and scenarios are the   *)
(* sets of keywords they contain (the code only tests substrings).         *)
(***************************************************************************)
EXTENDS Integers, Sequences, FiniteSets, TLC

(* ------------------------------ bounds -------------------------------- *)
\* process_turn calls that pass the active-game check, per behaviour
MaxTurns == 2
\* reset boundaries (midnights) that pass, per behaviour
MaxMidnights == 2
\* abandoned-game rows the inactivity cleanup may add, per behaviour
MaxHistory == 2
\* coroutines (handler invocations) that can be pending at the same time
MaxTasks == 2

(* ------------------------- program constants -------------------------- *)
MAX_MESSAGES_PER_DAY == 50
DAYS_TO_WIN == 30
MAX_HEALTH == 100
REST_RECOVERY == 15
\* food and water are held in units of 1/Scale: every depletion
\* (rate * intensity, e.g. 0.5 * 0.5 = 0.25, 0.5 * 1.2 = 0.6) is a whole
\* number of twentieths
Scale == 20

Players == {1}
Tiers == {"easy", "normal", "hard"}

\* GameConfig.DIFFICULTY_LEVELS; resource_depletion_rate in tenths
DIFFICULTY_LEVELS ==
  [easy   |-> [initial_health |-> 100, initial_food |-> 10, initial_water |-> 10,
               initial_weapons |-> <<"Baseball Bat">>, zombie_damage |-> 10,
               resource_depletion_rate10 |-> 5],
   normal |-> [initial_health |-> 80, initial_food |-> 7, initial_water |-> 7,
               initial_weapons |-> <<"Knife">>, zombie_damage |-> 15,
               resource_depletion_rate10 |-> 10],
   hard   |-> [initial_health |-> 60, initial_food |-> 5, initial_water |-> 5,
               initial_weapons |-> <<"Fists">>, zombie_damage |-> 20,
               resource_depletion_rate10 |-> 15]]

Max(a, b) == IF a >= b THEN a ELSE b
Min(a, b) == IF a <= b THEN a ELSE b

(* --------------------- ScenarioGenerator.process_action ---------------- *)
CraftWords   == {"craft", "make", "build", "create"}
FightWords   == {"fight", "attack", "shoot", "kill", "defend"}
StealthWords == {"sneak", "hide", "quiet", "stealth"}
ExploreWords == {"search", "look", "explore", "find"}
RestWords    == {"rest", "sleep", "wait", "heal"}
MoveWords    == {"run", "move", "go", "climb", "jump"}

\* any(word in text for word in words)
AnyIn(words, text) == words \cap text # {}

\* any weapon whose lowercased name contains "gun" or "pistol"
HasFirearm(weapons) ==
  \E i \in 1..Len(weapons) : weapons[i] \in {"Pistol"}

\* the validation block: some invalid_actions entry is appended
ContextInvalid(input, scenario, weapons) ==
  \/ AnyIn(CraftWords, input) /\ "workshop" \notin scenario /\ "tools" \notin scenario
  \/ AnyIn({"gun", "shoot"}, input) /\ ~HasFirearm(weapons)
  \/ "door" \in input /\ "door" \notin scenario
  \/ "window" \in input /\ "window" \notin scenario
  \/ "search" \in input /\ "empty" \in scenario

Analysis(valid, type) == [is_valid |-> valid, action_type |-> type]

ProcessAction(input, scenario, weapons) ==
  IF ContextInvalid(input, scenario, weapons) THEN Analysis(FALSE, "CUSTOM")
  ELSE IF AnyIn(FightWords, input)
       THEN IF AnyIn({"zombie", "threat"}, scenario)
            THEN Analysis(TRUE, "COMBAT") ELSE Analysis(FALSE, "CUSTOM")
  ELSE IF AnyIn(StealthWords, input) THEN Analysis(TRUE, "STEALTH")
  ELSE IF AnyIn(ExploreWords, input) THEN Analysis(TRUE, "EXPLORE")
  ELSE IF AnyIn(RestWords, input)
       THEN IF AnyIn({"safe", "quiet"}, scenario)
            THEN Analysis(TRUE, "REST") ELSE Analysis(FALSE, "CUSTOM")
  ELSE IF AnyIn(MoveWords, input) THEN Analysis(TRUE, "MOVE")
  ELSE Analysis(TRUE, "CUSTOM")

\* the player texts and scenario texts the model submits
Texts ==
  { {"attack"}, {"shoot"}, {"sneak"}, {"look"}, {"rest"}, {"run"}, {"wave"},
    {"open", "door"}, {"use", "bandages"}, {"use", "medicine"} }
Scenarios == { {}, {"zombie", "safe"} }


(* ------------------------------ PlayerState --------------------------- *)
ItemNames   == {"Bandages", "Medicine", "Ammunition", "Tools"}
WeaponNames == {"Baseball Bat", "Knife", "Crowbar", "Pistol"}

\* str.lower() of an inventory key
Lower(item) ==
  CASE item = "Bandages"   -> "bandages"
    [] item = "Medicine"   -> "medicine"
    [] item = "Ammunition" -> "ammunition"
    [] item = "Tools"      -> "tools"

\* the empty dict {}
EmptyDict == [k \in {} |-> 0]

\* PlayerState.to_dict followed by json.dumps: the stored game_state text
ToDict(p) ==
  [chat_id |-> p.chat_id, health |-> p.health, food |-> p.food,
   water |-> p.water, weapons |-> p.weapons, current_day |-> p.current_day,
   difficulty |-> p.difficulty, location |-> p.location,
   inventory |-> p.inventory, game_active |-> p.game_active]

\* from_dict that falls back to the normal tier instead of the stored one
FromDictDefaultTier(d) ==
  [chat_id |-> d.chat_id, health |-> d.health, food |-> d.food,
   water |-> d.water, weapons |-> d.weapons, current_day |-> d.current_day,
   difficulty |-> "normal", location |-> d.location,
   inventory |-> d.inventory, game_active |-> d.game_active]

\* json.loads followed by PlayerState.from_dict
FromDict(d) ==
  [chat_id |-> d.chat_id, health |-> d.health, food |-> d.food,
   water |-> d.water, weapons |-> d.weapons, current_day |-> d.current_day,
   difficulty |-> d.difficulty, location |-> d.location,
   inventory |-> d.inventory, game_active |-> d.game_active]

\* the PlayerState built by create_new_game
NewPlayerState(c, difficulty) ==
  LET settings == DIFFICULTY_LEVELS[difficulty]
  IN [chat_id |-> c,
      health |-> settings.initial_health,
      food |-> settings.initial_food * Scale,
      water |-> settings.initial_water * Scale,
      weapons |-> settings.initial_weapons,
      current_day |-> 1,
      difficulty |-> difficulty,
      location |-> "Safe House",
      inventory |-> EmptyDict,
      game_active |-> TRUE]

(* ------------------------ GameLogic.process_turn ----------------------- *)
\* action_intensity, in tenths; .get(action_type, 1.0)
Intensity10(type) ==
  CASE type = "COMBAT"  -> 20
    [] type = "MOVE"    -> 15
    [] type = "EXPLORE" -> 12
    [] type = "STEALTH" -> 10
    [] type = "REST"    -> 5
    [] type = "CUSTOM"  -> 10
    [] OTHER            -> 10

\* resource_use = depletion_rate * action_intensity, in units of 1/Scale
ResourceUse(difficulty, type) ==
  (DIFFICULTY_LEVELS[difficulty].resource_depletion_rate10 * Intensity10(type) * Scale)
    \div 100

\* player.food = max(0, player.food - resource_use), the same for water
Deplete(p, type) ==
  LET use == ResourceUse(p.difficulty, type)
  IN [p EXCEPT !.food = Max(0, @ - use), !.water = Max(0, @ - use)]

\* the values drawn from the random source during one turn
NoDraw ==
  [dmg |-> 0, found |-> FALSE, food |-> 0, water |-> 0,
   item |-> "none", qty |-> 0, weapon |-> "none"]

\* The random source is an input of the turn.
\* random.randint(5, 15), the COMBAT damage roll
DamageRolls == 5..15
\* random.randint(1, 3), for found_food and for found_water
SupplyRolls == 1..3
\* possible_items with (min_qty, max_qty) of each: random.randint(min_qty,
\* max_qty), sampled at the ends of the range
ItemQty(item) ==
  CASE item = "Bandages"   -> {1, 3}
    [] item = "Medicine"   -> {1, 2}
    [] item = "Ammunition" -> {5, 15}
    [] item = "Tools"      -> {1, 2}

Found(f, w, item, qty, weapon) ==
  [NoDraw EXCEPT !.found = TRUE, !.food = f, !.water = w,
                 !.item = item, !.qty = qty, !.weapon = weapon]

\* the rolls of an EXPLORE turn: nothing found (40%); supplies alone; with
\* an item (30%), a weapon (20%) or both, the supply rolls are sampled at
\* their ends
ExploreRolls ==
  {NoDraw}
    \cup {Found(f, w, "none", 0, "none") : f \in SupplyRolls, w \in SupplyRolls}
    \cup UNION {{Found(1, 1, i, q, "none") : q \in ItemQty(i)} : i \in ItemNames}
    \cup {Found(3, 3, "none", 0, wp) : wp \in WeaponNames}
    \cup {Found(1, 3, "Bandages", 1, "Pistol"), Found(3, 1, "Medicine", 1, "Baseball Bat")}

DrawsFor(type) ==
  IF type = "COMBAT" THEN {[NoDraw EXCEPT !.dmg = d] : d \in DamageRolls}
  ELSE IF type = "EXPLORE" THEN ExploreRolls
  ELSE {NoDraw}

\* player.inventory[found_item] += qty, or a new key
AddItem(inv, item, qty) ==
  IF item \in DOMAIN inv THEN [inv EXCEPT ![item] = @ + qty]
  ELSE (item :> qty) @@ inv

InList(w, weapons) == \E i \in 1..Len(weapons) : weapons[i] = w

\* player.weapons.append(found_weapon) without the membership test
AddWeaponAlways(weapons, w) == Append(weapons, w)

\* if found_weapon not in player.weapons: player.weapons.append(found_weapon)
AddWeapon(weapons, w) == IF InList(w, weapons) THEN weapons ELSE Append(weapons, w)

\* Combat without the max(0, ...) around the subtraction
CombatUnclamped(p, type, d) ==
  [p EXCEPT !.health = @ - (d.dmg * Intensity10(type)) \div 10]

Combat(p, type, d) ==
  [p EXCEPT !.health = Max(0, @ - (d.dmg * Intensity10(type)) \div 10)]

\* an EXPLORE turn that also costs 5 health
ExploreCostingHealth(p, d) ==
  IF ~d.found THEN [p EXCEPT !.health = @ - 5]
  ELSE [p EXCEPT !.health = @ - 5,
                 !.food = @ + d.food * Scale,
                 !.water = @ + d.water * Scale,
                 !.inventory = IF d.item = "none" THEN @ ELSE AddItem(@, d.item, d.qty),
                 !.weapons = IF d.weapon = "none" THEN @ ELSE AddWeapon(@, d.weapon)]

\* the EXPLORE branch: supplies found, with them an item and a weapon
Explore(p, d) ==
  IF ~d.found THEN p
  ELSE [p EXCEPT !.food = @ + d.food * Scale,
                 !.water = @ + d.water * Scale,
                 !.inventory = IF d.item = "none" THEN @ ELSE AddItem(@, d.item, d.qty),
                 !.weapons = IF d.weapon = "none" THEN @ ELSE AddWeapon(@, d.weapon)]

Rest(p) ==
  IF p.food > 0 /\ p.water > 0
  THEN LET heal_amount == Min(20, MAX_HEALTH - p.health)
       IN [p EXCEPT !.health = Min(@ + heal_amount, MAX_HEALTH),
                    !.food = @ - 1 * Scale,
                    !.water = @ - 1 * Scale]
  ELSE p

\* the if/elif chain on action_type
ApplyEffects(p, type, d) ==
  IF type = "COMBAT" THEN Combat(p, type, d)
  ELSE IF type = "EXPLORE" THEN Explore(p, d)
  ELSE IF type = "REST" THEN Rest(p)
  ELSE p

\* the items the description mentions, without the test of the quantity
UsedItemsAnyQuantity(p, text) ==
  IF "use" \in text
  THEN {i \in DOMAIN p.inventory : Lower(i) \in text}
  ELSE {}

\* the items of the inventory the description mentions, with quantity > 0
UsedItems(p, text) ==
  IF "use" \in text
  THEN {i \in DOMAIN p.inventory : Lower(i) \in text /\ p.inventory[i] > 0}
  ELSE {}

\* the loop over player.inventory: heal for Bandages and Medicine, then -1
UseItems(p, text) ==
  LET used == UsedItems(p, text)
      h1 == IF "Bandages" \in used THEN Min(p.health + 20, MAX_HEALTH) ELSE p.health
      h2 == IF "Medicine" \in used THEN Min(h1 + 40, MAX_HEALTH) ELSE h1
  IN [p EXCEPT !.health = h2,
               !.inventory = [i \in DOMAIN @ |-> IF i \in used THEN @[i] - 1 ELSE @[i]]]

\* the turn's changes with the action's effect applied before the depletion
MutatedEffectsFirst(p, type, text, d) ==
  UseItems(Deplete(ApplyEffects(p, type, d), type), text)

\* the session when the try block ends
Mutated(p, type, text, d) == UseItems(ApplyEffects(Deplete(p, type), type, d), text)

\* the win/lose check with the day test placed first
OutcomeDayFirst(p) ==
  IF p.current_day >= DAYS_TO_WIN THEN "won"
  ELSE IF p.health <= 0 THEN "died"
  ELSE "continue"

\* the win/lose check with > in place of >=
OutcomeLate(p) ==
  IF p.health <= 0 THEN "died"
  ELSE IF p.current_day > DAYS_TO_WIN THEN "won"
  ELSE "continue"

\* the win/lose check
Outcome(p) ==
  IF p.health <= 0 THEN "died"
  ELSE IF p.current_day >= DAYS_TO_WIN THEN "won"
  ELSE "continue"

\* the day counter moved in front of the win/lose check
TerminateAdvancing(p) ==
  IF Outcome(p) = "continue" THEN [p EXCEPT !.current_day = @ + 1]
  ELSE [p EXCEPT !.game_active = FALSE, !.current_day = @ + 1]

\* health <= 0: game over; elif the day threshold: victory; else the next day
Terminate(p) ==
  IF Outcome(p) = "continue" THEN [p EXCEPT !.current_day = @ + 1]
  ELSE [p EXCEPT !.game_active = FALSE]

\* the session process_turn leaves for a valid action
TurnResult(p, type, text, d) == Terminate(Mutated(p, type, text, d))

(* -------------------------------- state ------------------------------- *)
VARIABLES
  active_games,   \* GameStateManager.active_games: chat_id -> PlayerState
  players,        \* table players: chat_id -> row
  game_history,   \* table game_history, in insertion order
  rate_limits,    \* table rate_limits: chat_id -> row
  today,          \* the clock, as the number of midnights (UTC) passed
  sweep_due,      \* the DELETE of the reset_rate_limits job is due
  ret,            \* what the last call did and returned
  quota_ret,      \* what the last check_rate_limit call returned, and when
  calls,          \* the pending coroutines: task -> position and locals
  running,        \* the task the event loop is running, 0 when it is free
  granted,        \* allowed check_rate_limit returns of tasks in this window
  profiles,       \* the initial_weapons lists of GameConfig.DIFFICULTY_LEVELS
  shared,         \* chat_id -> the tier whose list the cached weapons list is
  turns           \* counter for the bound MaxTurns

vars == <<active_games, players, game_history, rate_limits, today, sweep_due,
          ret, quota_ret, calls, running, granted, profiles, shared, turns>>

session_vars == <<active_games, players, game_history, turns>>
task_vars == <<calls, running, granted>>
heap_vars == <<profiles, shared>>
limiter_vars == <<rate_limits, today, sweep_due, quota_ret, task_vars>>
quota_vars == <<limiter_vars, heap_vars>>

\* a dict or table without any key
EmptyMap == [c \in {} |-> 0]

Ret(op, c, outcome, type, valid) ==
  [op |-> op, chat_id |-> c, outcome |-> outcome, action_type |-> type,
   is_valid |-> valid]

\* the coroutines the event loop holds
TaskIds == 1..MaxTasks

\* no pending call; seen and row are the locals player and row (absent: the
\* empty map)
IdleCall ==
  [pc |-> "idle", chat_id |-> 0, text |-> {}, scenario |-> {},
   action_type |-> "none", seen |-> EmptyMap, row |-> EmptyMap]

\* the lists of the profile table as the module defines them
InitialProfiles == [t \in Tiers |-> DIFFICULTY_LEVELS[t].initial_weapons]

\* weapons = settings["initial_weapons"] without .copy(): the session's list
\* is the profile's list
SameList(difficulty) == difficulty

\* settings["initial_weapons"].copy(): a new list, no profile's list
CopyOf(difficulty) == "none"

\* the profile lists after the cached session's weapons list has become
\* weapons: a list shared with a profile changes there too
ProfilesAfter(c, weapons) ==
  IF shared[c] = "none" THEN profiles
  ELSE [profiles EXCEPT ![shared[c]] = weapons]

(* --------------------------- GameStateManager -------------------------- *)
\* the row INSERT OR REPLACE writes; a fresh row's last_updated is now
Row(p) ==
  [game_state |-> ToDict(p), current_day |-> p.current_day,
   difficulty |-> p.difficulty, location |-> p.location,
   game_active |-> p.game_active, stale |-> FALSE]

\* _save_to_db with INSERT OR IGNORE: an existing row of the chat_id stays
SaveToDbKeepingOld(db, p) == db @@ (p.chat_id :> Row(p))

\* _save_to_db: upsert keyed by chat_id
SaveToDb(db, p) == (p.chat_id :> Row(p)) @@ db

\* SELECT game_state FROM players WHERE game_active = 1, into active_games
LoadActiveGames(db) ==
  [c \in {k \in DOMAIN db : db[k].game_active} |-> FromDict(db[c].game_state)]

\* get_player_state with a SELECT that leaves out AND game_active = 1
CacheAfterGetAnyRow(c) ==
  IF c \in DOMAIN active_games THEN active_games
  ELSE IF c \in DOMAIN players
       THEN (c :> FromDict(players[c].game_state)) @@ active_games
       ELSE active_games

\* active_games after get_player_state(c): a miss loads the row flagged active
CacheAfterGet(c) ==
  IF c \in DOMAIN active_games THEN active_games
  ELSE IF c \in DOMAIN players /\ players[c].game_active
       THEN (c :> FromDict(players[c].game_state)) @@ active_games
       ELSE active_games

\* the guard of process_turn without its test of player.game_active
HasActiveGameAnyFlag(c) == c \in DOMAIN CacheAfterGet(c)

\* get_player_state(c) returned a player whose game_active is true
HasActiveGame(c) ==
  c \in DOMAIN CacheAfterGet(c) /\ CacheAfterGet(c)[c].game_active

CreateNewGame(c, difficulty) ==
  /\ LET db1 == IF c \in DOMAIN active_games
                THEN SaveToDb(players, [active_games[c] EXCEPT !.game_active = FALSE])
                ELSE players
         player_state == [NewPlayerState(c, difficulty)
                            EXCEPT !.weapons = profiles[difficulty]]
     IN /\ active_games' = (c :> player_state) @@ active_games
        /\ players' = SaveToDb(db1, player_state)
  /\ shared' = [shared EXCEPT ![c] = CopyOf(difficulty)]
  /\ ret' = Ret("create_new_game", c, "created", "none", TRUE)
  /\ UNCHANGED <<game_history, turns, limiter_vars, profiles>>

\* get_player_state(c) called on its own; the outcome names the return
\* statement taken: the cached object, the loaded row, or None
GetPlayerState(c) ==
  /\ active_games' = CacheAfterGet(c)
  /\ ret' = Ret("get_player_state", c,
                IF c \in DOMAIN active_games THEN "cached"
                ELSE IF c \in DOMAIN CacheAfterGet(c) THEN "loaded"
                ELSE "not_found",
                "none", TRUE)
  /\ UNCHANGED <<players, game_history, turns, quota_vars>>

\* the row of the chat_id holds the content of p already
Committed(db, p) ==
  IF p.chat_id \in DOMAIN db
  THEN db[p.chat_id].game_state = ToDict(p)
       /\ db[p.chat_id].game_active = p.game_active
  ELSE FALSE

\* _save_to_db(player) on the cached session, once more
CommitAgain(c) ==
  /\ c \in DOMAIN active_games
  /\ players' = SaveToDb(players, active_games[c])
  /\ ret' = Ret("save_to_db", c,
                IF Committed(players, active_games[c]) THEN "repeated" ELSE "written",
                "none", TRUE)
  /\ UNCHANGED <<active_games, game_history, turns, quota_vars>>

(* ------------------------------ process_turn --------------------------- *)
\* no player, or player.game_active is false
ProcessTurnNoGame(c) ==
  /\ ~HasActiveGame(c)
  /\ active_games' = CacheAfterGet(c)
  /\ ret' = Ret("process_turn", c, "no_active", "none", TRUE)
  /\ UNCHANGED <<players, game_history, turns, quota_vars>>

\* the is_valid test placed after the resource depletion and a save
ProcessTurnInvalidSaving(c, text, scenario) ==
  /\ HasActiveGame(c)
  /\ LET player == CacheAfterGet(c)[c]
         action_analysis == ProcessAction(text, scenario, player.weapons)
         depleted == Deplete(player, action_analysis.action_type)
     IN /\ ~action_analysis.is_valid
        /\ active_games' = (c :> depleted) @@ CacheAfterGet(c)
        /\ players' = SaveToDb(players, depleted)
        /\ ret' = Ret("process_turn", c, "invalid", action_analysis.action_type, FALSE)
  /\ UNCHANGED <<game_history, turns, quota_vars>>

\* action_analysis.is_valid is false: the feedback is returned
ProcessTurnInvalid(c, text, scenario) ==
  /\ HasActiveGame(c)
  /\ LET player == CacheAfterGet(c)[c]
         action_analysis == ProcessAction(text, scenario, player.weapons)
     IN /\ ~action_analysis.is_valid
        /\ active_games' = CacheAfterGet(c)
        /\ ret' = Ret("process_turn", c, "invalid", action_analysis.action_type, FALSE)
  /\ UNCHANGED <<players, game_history, turns, quota_vars>>

\* process_turn without the save that follows the win/lose check
ProcessTurnApplySavingOnce(c, text, scenario) ==
  /\ HasActiveGame(c)
  /\ turns < MaxTurns
  /\ LET player == CacheAfterGet(c)[c]
         action_analysis == ProcessAction(text, scenario, player.weapons)
         type == action_analysis.action_type
     IN /\ action_analysis.is_valid
        /\ \E d \in DrawsFor(type) :
             LET mutated == Mutated(player, type, text, d)
                 after == TurnResult(player, type, text, d)
             IN /\ active_games' = (c :> after) @@ CacheAfterGet(c)
                /\ players' = SaveToDb(players, mutated)
                /\ profiles' = ProfilesAfter(c, after.weapons)
                /\ ret' = Ret("process_turn", c, Outcome(mutated), type, TRUE)
  /\ turns' = turns + 1
  /\ UNCHANGED <<game_history, limiter_vars, shared>>

\* a valid action: depletion, effects, item use, save, win/lose check, save
ProcessTurnApply(c, text, scenario) ==
  /\ HasActiveGame(c)
  /\ turns < MaxTurns
  /\ LET player == CacheAfterGet(c)[c]
         action_analysis == ProcessAction(text, scenario, player.weapons)
         type == action_analysis.action_type
     IN /\ action_analysis.is_valid
        /\ \E d \in DrawsFor(type) :
             LET mutated == Mutated(player, type, text, d)
                 after == TurnResult(player, type, text, d)
             IN /\ active_games' = (c :> after) @@ CacheAfterGet(c)
                /\ players' = SaveToDb(SaveToDb(players, mutated), after)
                /\ profiles' = ProfilesAfter(c, after.weapons)
                /\ ret' = Ret("process_turn", c, Outcome(mutated), type, TRUE)
  /\ turns' = turns + 1
  /\ UNCHANGED <<game_history, limiter_vars, shared>>

\* the scenario generator raises inside the try block, in process_action
\* (before any change) or in generate_outcome (after the depletion): the
\* except clause sets the result text, and the save and the win/lose check
\* that follow the try block run as for any turn
OracleStages == {"process_action", "generate_outcome"}

ProcessTurnOracleFails(c, text, scenario, stage) ==
  /\ HasActiveGame(c)
  /\ turns < MaxTurns
  /\ LET player == CacheAfterGet(c)[c]
         action_analysis == ProcessAction(text, scenario, player.weapons)
         mutated == IF stage = "process_action" THEN player
                    ELSE Deplete(player, action_analysis.action_type)
         after == Terminate(mutated)
     IN /\ stage = "generate_outcome" => action_analysis.is_valid
        /\ active_games' = (c :> after) @@ CacheAfterGet(c)
        /\ players' = SaveToDb(SaveToDb(players, mutated), after)
        /\ ret' = Ret("process_turn", c, "oracle_error",
                      IF stage = "process_action" THEN "none"
                      ELSE action_analysis.action_type, TRUE)
  /\ turns' = turns + 1
  /\ UNCHANGED <<game_history, quota_vars>>

\* _save_to_db raises (the database is locked, the disk is full): the
\* exception leaves process_turn.  nth = 1: the save after the try block
\* fails, the cached PlayerState keeps the turn's changes; nth = 2: the save
\* after the win/lose check fails, the row keeps the state of the first save
ProcessTurnSaveFails(c, text, scenario, nth) ==
  /\ HasActiveGame(c)
  /\ turns < MaxTurns
  /\ LET player == CacheAfterGet(c)[c]
         action_analysis == ProcessAction(text, scenario, player.weapons)
         type == action_analysis.action_type
     IN /\ action_analysis.is_valid
        /\ \E d \in DrawsFor(type) :
             LET mutated == Mutated(player, type, text, d)
                 after == TurnResult(player, type, text, d)
             IN /\ profiles' = ProfilesAfter(c, mutated.weapons)
                /\ IF nth = 1
                   THEN /\ active_games' = (c :> mutated) @@ CacheAfterGet(c)
                        /\ players' = players
                   ELSE /\ active_games' = (c :> after) @@ CacheAfterGet(c)
                        /\ players' = SaveToDb(players, mutated)
        /\ ret' = Ret("process_turn", c, "save_error", type, TRUE)
  /\ turns' = turns + 1
  /\ UNCHANGED <<game_history, limiter_vars, shared>>

ProcessTurn(c, text, scenario) ==
  \/ ProcessTurnNoGame(c)
  \/ ProcessTurnInvalid(c, text, scenario)
  \/ ProcessTurnApply(c, text, scenario)

(* ------------------------------- Database ------------------------------ *)
\* COALESCE(MAX(game_id), 0) + 1 over the history rows of chat_id
NextGameId(history, c) ==
  LET ids == {history[i].game_id : i \in {j \in 1..Len(history) : history[j].chat_id = c}}
  IN IF ids = {} THEN 1 ELSE (CHOOSE m \in ids : \A x \in ids : x <= m) + 1

\* the SELECT of cleanup_inactive_games without its test of last_updated
InactiveGamesAnyAge(db) == {c \in DOMAIN db : db[c].game_active}

\* the rows cleanup_inactive_games selects
InactiveGames(db) == {c \in DOMAIN db : db[c].game_active /\ db[c].stale}

HistoryRow(history, c, row) ==
  [chat_id |-> c, game_id |-> NextGameId(history, c),
   result |-> "Game abandoned due to inactivity",
   survived_days |-> row.current_day, difficulty |-> row.difficulty,
   final_location |-> row.location, final_state |-> row.game_state]

\* the loop of cleanup_inactive_games over the selected rows, in chat_id order
RECURSIVE CleanupHistory(_, _, _)
CleanupHistory(history, db, todo) ==
  IF todo = {} THEN history
  ELSE LET c == CHOOSE m \in todo : \A x \in todo : m <= x
       IN CleanupHistory(Append(history, HistoryRow(history, c, db[c])), db, todo \ {c})

\* UPDATE players SET game_active = 0; the update trigger refreshes last_updated
CleanupPlayers(db) ==
  [c \in DOMAIN db |->
     IF c \in InactiveGames(db)
     THEN [db[c] EXCEPT !.game_active = FALSE, !.stale = FALSE]
     ELSE db[c]]

\* main(): GameStateManager(database), then database.cleanup_inactive_games(24)
Startup ==
  /\ active_games' = LoadActiveGames(players)
  /\ game_history' = CleanupHistory(game_history, players, InactiveGames(players))
  /\ players' = CleanupPlayers(players)
  /\ profiles' = InitialProfiles
  /\ shared' = [c \in Players |-> "none"]
  /\ ret' = Ret("startup", 0, "started", "none", TRUE)
  /\ UNCHANGED <<turns, limiter_vars>>

\* more than 24 hours pass without a write to the players table
TimePasses ==
  /\ Len(game_history) < MaxHistory
  /\ \E c \in DOMAIN players : ~players[c].stale
  /\ players' = [c \in DOMAIN players |-> [players[c] EXCEPT !.stale = TRUE]]
  /\ ret' = Ret("time_passes", 0, "none", "none", TRUE)
  /\ UNCHANGED <<active_games, game_history, turns, quota_vars>>

(* ----------------------------- rate limiter --------------------------- *)
\* the reset test without the comparison of last_reset
NeedsResetNoRow(rl, c) == c \notin DOMAIN rl

\* no record, or last_reset is before today's reset instant
NeedsReset(rl, c) == IF c \notin DOMAIN rl THEN TRUE ELSE rl[c].last_reset < today

\* is_allowed of check_rate_limit
Allowed(rl, c) ==
  IF NeedsReset(rl, c) THEN TRUE ELSE rl[c].message_count < MAX_MESSAGES_PER_DAY

\* remaining_messages of check_rate_limit
Remaining(rl, c) ==
  IF NeedsReset(rl, c) THEN MAX_MESSAGES_PER_DAY - 1
  ELSE IF rl[c].message_count >= MAX_MESSAGES_PER_DAY THEN 0
  ELSE MAX_MESSAGES_PER_DAY - (rl[c].message_count + 1)

\* check_rate_limit with the UPDATE placed before the test of the limit
CheckRateLimitCounting(rl, c) ==
  IF NeedsReset(rl, c)
  THEN (c :> [message_count |-> 1, last_reset |-> today]) @@ rl
  ELSE [rl EXCEPT ![c].message_count = @ + 1]

\* table rate_limits after check_rate_limit(c)
CheckRateLimit(rl, c) ==
  IF NeedsReset(rl, c)
  THEN (c :> [message_count |-> 1, last_reset |-> today]) @@ rl
  ELSE IF rl[c].message_count >= MAX_MESSAGES_PER_DAY THEN rl
  ELSE [rl EXCEPT ![c].message_count = @ + 1]

\* (is_allowed, remaining_messages) of check_rate_limit(c), with the day of
\* the call
CheckReturn(rl, c) ==
  [chat_id |-> c, is_allowed |-> Allowed(rl, c), remaining |-> Remaining(rl, c),
   day |-> today]

\* message_count as a reader of the table sees it (0 without a row)
MessageCount(rl, c) == IF c \in DOMAIN rl THEN rl[c].message_count ELSE 0

\* a reset instant (midnight UTC) passes.  The job reset_rate_limits first
\* runs at the first midnight after the start and then sleeps until the next
\* one; from the second midnight on its DELETE is due, and it runs some time
\* after the instant
Midnight ==
  /\ today < MaxMidnights
  /\ today' = today + 1
  /\ sweep_due' = (sweep_due \/ today >= 1)
  /\ ret' = Ret("midnight", 0, "none", "none", TRUE)
  /\ granted' = 0
  /\ UNCHANGED <<rate_limits, quota_ret, calls, running, heap_vars, session_vars>>

\* Database.reset_rate_limits, run by the daily job: DELETE FROM rate_limits
ResetRateLimits ==
  /\ sweep_due
  /\ sweep_due' = FALSE
  /\ rate_limits' = EmptyMap
  /\ ret' = Ret("reset_rate_limits", 0, "none", "none", TRUE)
  /\ UNCHANGED <<today, quota_ret, task_vars, heap_vars, session_vars>>

(* --------------------- TelegramHandler.handle_text_input --------------- *)
\* the denied branch without its return: the turn is played all the same
HandleTextDeniedPlaying(c) ==
  /\ ~Allowed(rate_limits, c)
  /\ rate_limits' = CheckRateLimit(rate_limits, c)
  /\ quota_ret' = CheckReturn(rate_limits, c)
  /\ IF HasActiveGame(c)
     THEN LET after == TurnResult(CacheAfterGet(c)[c], "STEALTH", {"sneak"}, NoDraw)
          IN /\ active_games' = (c :> after) @@ CacheAfterGet(c)
             /\ players' = SaveToDb(players, after)
     ELSE UNCHANGED <<active_games, players>>
  /\ ret' = Ret("handle_text_input", c, "rate_limited", "none", TRUE)
  /\ UNCHANGED <<task_vars, heap_vars, today, sweep_due, game_history, turns>>

\* the limit is reached: the reply names the reset time
HandleTextDenied(c) ==
  /\ ~Allowed(rate_limits, c)
  /\ rate_limits' = CheckRateLimit(rate_limits, c)
  /\ quota_ret' = CheckReturn(rate_limits, c)
  /\ ret' = Ret("handle_text_input", c, "rate_limited", "none", TRUE)
  /\ UNCHANGED <<task_vars, heap_vars, today, sweep_due, session_vars>>

\* allowed, but get_player_state finds no active game
HandleTextNoGame(c) ==
  /\ Allowed(rate_limits, c)
  /\ ~HasActiveGame(c)
  /\ rate_limits' = CheckRateLimit(rate_limits, c)
  /\ quota_ret' = CheckReturn(rate_limits, c)
  /\ active_games' = CacheAfterGet(c)
  /\ ret' = Ret("handle_text_input", c, "no_active", "none", TRUE)
  /\ UNCHANGED <<task_vars, heap_vars, today, sweep_due, players, game_history, turns>>

\* allowed and in a game: process_action is called with the keyword message=,
\* which ScenarioGenerator.process_action does not take; the TypeError is
\* caught by the handler, which replies that it had trouble and returns
HandleTextError(c, text, scenario) ==
  /\ Allowed(rate_limits, c)
  /\ HasActiveGame(c)
  /\ rate_limits' = CheckRateLimit(rate_limits, c)
  /\ quota_ret' = CheckReturn(rate_limits, c)
  /\ active_games' = CacheAfterGet(c)
  /\ ret' = Ret("handle_text_input", c, "error", "none",
                ProcessAction(text, scenario, CacheAfterGet(c)[c].weapons).is_valid)
  /\ UNCHANGED <<task_vars, heap_vars, today, sweep_due, players, game_history, turns>>

\* /daily: check_rate_limit is called for the status text; building the text
\* then fails on the name GameConfig, which the module does not import
DailyCommand(c) ==
  /\ rate_limits' = CheckRateLimit(rate_limits, c)
  /\ quota_ret' = CheckReturn(rate_limits, c)
  /\ ret' = Ret("daily_command", c, "error", "none", TRUE)
  /\ UNCHANGED <<task_vars, heap_vars, today, sweep_due, session_vars>>

HandleTextInput(c, text, scenario) ==
  \/ HandleTextDenied(c)
  \/ HandleTextNoGame(c)
  \/ HandleTextError(c, text, scenario)

(* ----------------------- process_turn as a coroutine ------------------- *)

\* the coroutine gives the event loop up at an await only when the awaited
\* coroutine suspends; process_action, generate_outcome and generate_scenario
\* contain no await, so none of the three awaits of process_turn yields
YieldsAlways(at) == TRUE

Yields(at) == FALSE

\* what the tasks are invoked with
TaskTexts == { {"attack"}, {"rest"}, {"open", "door"} }

\* the handler is entered: a process_turn coroutine is created for the update
TurnInvoke(t, c, text, scenario) ==
  /\ calls[t].pc = "idle"
  /\ turns < MaxTurns
  /\ calls' = [calls EXCEPT ![t] = [IdleCall EXCEPT !.pc = "entered",
                 !.chat_id = c, !.text = text, !.scenario = scenario]]
  /\ turns' = turns + 1
  /\ UNCHANGED <<active_games, players, game_history, rate_limits, today,
                 sweep_due, ret, quota_ret, running, granted, heap_vars>>

\* from the entry to the first await: get_player_state, the no-active return,
\* then the call of process_action
TurnRead(t) ==
  /\ calls[t].pc = "entered"
  /\ running \in {0, t}
  /\ LET c == calls[t].chat_id
     IN /\ active_games' = CacheAfterGet(c)
        /\ IF ~HasActiveGame(c)
           THEN /\ ret' = Ret("process_turn", c, "no_active", "none", TRUE)
                /\ calls' = [calls EXCEPT ![t] = IdleCall]
                /\ running' = 0
           ELSE /\ calls' = [calls EXCEPT ![t].pc = "process_action",
                               ![t].seen = (c :> CacheAfterGet(c)[c])]
                /\ running' = IF Yields("process_action") THEN 0 ELSE t
                /\ UNCHANGED ret
  /\ UNCHANGED <<players, game_history, rate_limits, today, sweep_due,
                 quota_ret, granted, heap_vars, turns>>

\* from the first await to the second: the is_valid return, the depletion of
\* the cached player, then the call of generate_outcome
TurnClassified(t) ==
  /\ calls[t].pc = "process_action"
  /\ running \in {0, t}
  /\ LET c == calls[t].chat_id
         player == active_games[c]
         action_analysis == ProcessAction(calls[t].text, calls[t].scenario,
                                          player.weapons)
         type == action_analysis.action_type
     IN IF ~action_analysis.is_valid
        THEN /\ ret' = Ret("process_turn", c, "invalid", type, FALSE)
             /\ calls' = [calls EXCEPT ![t] = IdleCall]
             /\ running' = 0
             /\ UNCHANGED active_games
        ELSE /\ active_games' = [active_games EXCEPT ![c] = Deplete(player, type)]
             /\ calls' = [calls EXCEPT ![t].pc = "generate_outcome",
                                       ![t].action_type = type]
             /\ running' = IF Yields("generate_outcome") THEN 0 ELSE t
             /\ UNCHANGED ret
  /\ UNCHANGED <<players, game_history, rate_limits, today, sweep_due,
                 quota_ret, granted, heap_vars, turns>>

\* from the second await to the third: the effects and the item use on the
\* cached player, the save, the win/lose check and its save, then the call of
\* generate_scenario when the game goes on
TurnOutcome(t) ==
  /\ calls[t].pc = "generate_outcome"
  /\ running \in {0, t}
  /\ LET c == calls[t].chat_id
         type == calls[t].action_type
     IN \E d \in DrawsFor(type) :
          LET mutated == UseItems(ApplyEffects(active_games[c], type, d),
                                  calls[t].text)
              after == Terminate(mutated)
          IN /\ active_games' = [active_games EXCEPT ![c] = after]
             /\ players' = SaveToDb(SaveToDb(players, mutated), after)
             /\ profiles' = ProfilesAfter(c, after.weapons)
             /\ IF Outcome(mutated) # "continue"
                THEN /\ ret' = Ret("process_turn", c, Outcome(mutated), type, TRUE)
                     /\ calls' = [calls EXCEPT ![t] = IdleCall]
                     /\ running' = 0
                ELSE /\ calls' = [calls EXCEPT ![t].pc = "generate_scenario"]
                     /\ running' = IF Yields("generate_scenario") THEN 0 ELSE t
                     /\ UNCHANGED ret
  /\ UNCHANGED <<game_history, rate_limits, today, sweep_due, quota_ret,
                 granted, shared, turns>>

\* from the third await to the return of the turn's result
TurnScenario(t) ==
  /\ calls[t].pc = "generate_scenario"
  /\ running \in {0, t}
  /\ ret' = Ret("process_turn", calls[t].chat_id, "continue",
                calls[t].action_type, TRUE)
  /\ calls' = [calls EXCEPT ![t] = IdleCall]
  /\ running' = 0
  /\ UNCHANGED <<active_games, players, game_history, rate_limits, today,
                 sweep_due, quota_ret, granted, heap_vars, turns>>

(* ---------------------- check_rate_limit as a call -------------------- *)

\* check_rate_limit is a plain function (def, no await): the caller cannot be
\* suspended between the SELECT and the INSERT or UPDATE
CheckYieldsAfterSelect == TRUE

CheckYields == FALSE

\* handle_text_input or daily_command is entered and is about to call
\* check_rate_limit(c)
CheckInvoke(t, c) ==
  /\ calls[t].pc = "idle"
  /\ calls' = [calls EXCEPT ![t] = [IdleCall EXCEPT !.pc = "check_entered",
                                                    !.chat_id = c]]
  /\ UNCHANGED <<active_games, players, game_history, rate_limits, today,
                 sweep_due, ret, quota_ret, running, granted, heap_vars, turns>>

\* SELECT message_count, last_reset ... ; row = cursor.fetchone()
CheckSelect(t) ==
  /\ calls[t].pc = "check_entered"
  /\ running \in {0, t}
  /\ LET c == calls[t].chat_id
     IN calls' = [calls EXCEPT ![t].pc = "check_selected",
                    ![t].row = IF c \in DOMAIN rate_limits
                               THEN (c :> rate_limits[c]) ELSE EmptyMap]
  /\ running' = IF CheckYields THEN 0 ELSE t
  /\ UNCHANGED <<active_games, players, game_history, rate_limits, today,
                 sweep_due, ret, quota_ret, granted, heap_vars, turns>>

\* the rest of check_rate_limit, decided on the fetched row: INSERT OR REPLACE
\* with count 1, or the refusal, or UPDATE ... message_count + 1
CheckDecide(t) ==
  /\ calls[t].pc = "check_selected"
  /\ running \in {0, t}
  /\ LET c == calls[t].chat_id
         row == calls[t].row
     IN /\ rate_limits' =
             IF NeedsReset(row, c)
             THEN (c :> [message_count |-> 1, last_reset |-> today]) @@ rate_limits
             ELSE IF row[c].message_count >= MAX_MESSAGES_PER_DAY THEN rate_limits
             ELSE IF c \in DOMAIN rate_limits
                  THEN [rate_limits EXCEPT ![c].message_count = @ + 1]
                  ELSE rate_limits
        /\ quota_ret' = CheckReturn(row, c)
        /\ granted' = IF Allowed(row, c) THEN granted + 1 ELSE granted
        /\ ret' = Ret("check_rate_limit", c, "none", "none", TRUE)
  /\ calls' = [calls EXCEPT ![t] = IdleCall]
  /\ running' = 0
  /\ UNCHANGED <<active_games, players, game_history, today, sweep_due,
                 heap_vars, turns>>

(* ------------------------------ behaviours ----------------------------- *)
\* k STEALTH turns in a row, as process_turn applies them
RECURSIVE QuietTurns(_, _)
QuietTurns(p, k) ==
  IF k = 0 \/ ~p.game_active THEN p
  ELSE QuietTurns(TurnResult(p, "STEALTH", {"sneak"}, NoDraw), k - 1)

\* the sessions a database file left by an earlier run holds: a new game
\* played quietly up to the day before DAYS_TO_WIN, or a new game after one
\* fight (damage roll 14)
EarlierSessions(c, difficulty) ==
  {QuietTurns(NewPlayerState(c, difficulty), DAYS_TO_WIN - 2),
   TurnResult(NewPlayerState(c, difficulty), "COMBAT", {"attack"},
              [NoDraw EXCEPT !.dmg = 14])}

InitialStores ==
  {EmptyMap} \cup
  {SaveToDb(EmptyMap, p) : p \in UNION {EarlierSessions(c, t) : c \in Players, t \in Tiers}}

\* main() over a database file: the tables are created if missing, the
\* active games are loaded; no stored row is older than 24 hours
Init ==
  /\ players \in InitialStores
  /\ active_games = LoadActiveGames(players)
  /\ game_history = << >>
  /\ rate_limits = EmptyMap
  /\ today = 0
  /\ sweep_due = FALSE
  /\ quota_ret = [chat_id |-> 0, is_allowed |-> TRUE, remaining |-> 0, day |-> -1]
  /\ calls = [t \in TaskIds |-> IdleCall]
  /\ running = 0
  /\ granted = 0
  /\ profiles = InitialProfiles
  /\ shared = [c \in Players |-> "none"]
  /\ ret = Ret("startup", 0, "started", "none", TRUE)
  /\ turns = 0

\* the session and turn engine: any sequence of create_new_game and
\* process_turn calls
Next ==
  \/ \E c \in Players, t \in Tiers : CreateNewGame(c, t)
  \/ \E c \in Players : ProcessTurnNoGame(c)
  \/ \E c \in Players, text \in Texts, scenario \in Scenarios :
       ProcessTurnInvalid(c, text, scenario)
  \/ \E c \in Players, text \in Texts, scenario \in Scenarios :
       ProcessTurnApply(c, text, scenario)

Spec == Init /\ [][Next]_vars

\* the texts submitted between restarts: a STEALTH turn, a REST turn and an
\* invalid action
StoreTexts == { {"sneak"}, {"rest"}, {"open", "door"} }

\* sessions and turns with process restarts and the passing of time
NextStore ==
  \/ \E c \in Players, t \in Tiers : CreateNewGame(c, t)
  \/ \E c \in Players : ProcessTurnNoGame(c)
  \/ \E c \in Players, text \in StoreTexts, scenario \in Scenarios :
       ProcessTurnInvalid(c, text, scenario)
  \/ \E c \in Players, text \in StoreTexts, scenario \in Scenarios :
       ProcessTurnApply(c, text, scenario)
  \/ Startup
  \/ TimePasses

SpecStore == Init /\ [][NextStore]_vars

\* the session and turn engine with a scenario generator and a database
\* that can fail
\* the store under repeated commits of the cached session
NextCommit ==
  \/ \E c \in Players, t \in Tiers : CreateNewGame(c, t)
  \/ \E c \in Players, text \in StoreTexts, scenario \in Scenarios :
       ProcessTurnApply(c, text, scenario)
  \/ \E c \in Players : CommitAgain(c)
  \/ Startup
  \/ TimePasses

SpecCommit == Init /\ [][NextCommit]_vars

\* the sessions a cache or a row can hold: running ones and ended ones
GetSessions ==
  LET running_ones == UNION {EarlierSessions(c, t) : c \in Players, t \in Tiers}
  IN running_ones \cup {[p EXCEPT !.game_active = FALSE] : p \in running_ones}

\* get_player_state over every combination of cache and players table: the
\* file can hold a row that this process has not cached (written by another
\* instance of the bot), and the cache a session the table no longer flags
InitGet ==
  /\ players \in {EmptyMap} \cup {SaveToDb(EmptyMap, p) : p \in GetSessions}
  /\ active_games \in {EmptyMap} \cup {(p.chat_id :> p) : p \in GetSessions}
  /\ game_history = << >>
  /\ rate_limits = EmptyMap
  /\ today = 0
  /\ sweep_due = FALSE
  /\ quota_ret = [chat_id |-> 0, is_allowed |-> TRUE, remaining |-> 0, day |-> -1]
  /\ calls = [t \in TaskIds |-> IdleCall]
  /\ running = 0
  /\ granted = 0
  /\ profiles = InitialProfiles
  /\ shared = [c \in Players |-> "none"]
  /\ ret = Ret("startup", 0, "started", "none", TRUE)
  /\ turns = 0

NextGet ==
  \/ \E c \in Players : GetPlayerState(c)
  \/ \E c \in Players, t \in Tiers : CreateNewGame(c, t)
  \/ \E c \in Players, text \in StoreTexts, scenario \in Scenarios :
       ProcessTurnApply(c, text, scenario)

SpecGet == InitGet /\ [][NextGet]_vars

\* sessions of an earlier run that hold an item: a new game after one fight
\* (damage roll 14) and an EXPLORE turn that found one Bandages or Medicine,
\* and the same session after the item was used
ItemSessions(c, difficulty) ==
  LET wounded == TurnResult(NewPlayerState(c, difficulty), "COMBAT", {"attack"},
                            [NoDraw EXCEPT !.dmg = 14])
      found == {TurnResult(wounded, "EXPLORE", {"look"}, Found(1, 1, i, 1, "none")) :
                  i \in {"Bandages", "Medicine"}}
      spent == {TurnResult(p, "CUSTOM", {"use", "bandages", "medicine"}, NoDraw) :
                  p \in found}
  IN found \cup spent

\* main() over a database file whose session holds an item
InitItems ==
  /\ players \in {EmptyMap} \cup
       {SaveToDb(EmptyMap, p) :
          p \in UNION {ItemSessions(c, t) : c \in Players, t \in Tiers}}
  /\ active_games = LoadActiveGames(players)
  /\ game_history = << >>
  /\ rate_limits = EmptyMap
  /\ today = 0
  /\ sweep_due = FALSE
  /\ quota_ret = [chat_id |-> 0, is_allowed |-> TRUE, remaining |-> 0, day |-> -1]
  /\ calls = [t \in TaskIds |-> IdleCall]
  /\ running = 0
  /\ granted = 0
  /\ profiles = InitialProfiles
  /\ shared = [c \in Players |-> "none"]
  /\ ret = Ret("startup", 0, "started", "none", TRUE)
  /\ turns = 0

SpecItems == InitItems /\ [][Next]_vars

\* one game per player: turns, restarts with their cleanup and the passing of
\* time, without create_new_game
NextOneGame ==
  \/ \E c \in Players : ProcessTurnNoGame(c)
  \/ \E c \in Players, text \in StoreTexts, scenario \in Scenarios :
       ProcessTurnInvalid(c, text, scenario)
  \/ \E c \in Players, text \in StoreTexts, scenario \in Scenarios :
       ProcessTurnApply(c, text, scenario)
  \/ Startup
  \/ TimePasses

SpecOneGame == Init /\ [][NextOneGame]_vars

NextFaults ==
  \/ Next
  \/ \E c \in Players, text \in Texts, scenario \in Scenarios, stage \in OracleStages :
       ProcessTurnOracleFails(c, text, scenario, stage)
  \/ \E c \in Players, text \in Texts, scenario \in Scenarios, nth \in {1, 2} :
       ProcessTurnSaveFails(c, text, scenario, nth)

SpecFaults == Init /\ [][NextFaults]_vars

\* the rate limiter and the text handler in front of it
\* process_turn coroutines of one player pending together on the event loop
NextTurnTasks ==
  \/ \E t \in TaskIds, c \in Players, text \in TaskTexts, scenario \in Scenarios :
       TurnInvoke(t, c, text, scenario)
  \/ \E t \in TaskIds : TurnRead(t)
  \/ \E t \in TaskIds : TurnClassified(t)
  \/ \E t \in TaskIds : TurnOutcome(t)
  \/ \E t \in TaskIds : TurnScenario(t)

SpecTurnTasks == Init /\ [][NextTurnTasks]_vars

\* check_rate_limit calls of one player pending together, across midnights
NextCheckTasks ==
  \/ \E t \in TaskIds, c \in Players : CheckInvoke(t, c)
  \/ \E t \in TaskIds : CheckSelect(t)
  \/ \E t \in TaskIds : CheckDecide(t)
  \/ Midnight

SpecCheckTasks == Init /\ [][NextCheckTasks]_vars

NextQuota ==
  \/ \E c \in Players : HandleTextDenied(c)
  \/ \E c \in Players : HandleTextNoGame(c)
  \/ \E c \in Players, text \in Texts, scenario \in Scenarios :
       HandleTextError(c, text, scenario)
  \/ \E c \in Players : DailyCommand(c)
  \/ Midnight
  \/ ResetRateLimits

SpecQuota == Init /\ [][NextQuota]_vars

(* ------------------------------ properties ----------------------------- *)
\* C1: after any sequence of create_new_game and process_turn calls, for
\* every tier and action kind, the health of the session (cached and
\* stored) is within 0..MAX_HEALTH
HealthInRange ==
  /\ \A c \in DOMAIN active_games :
       active_games[c].health >= 0 /\ active_games[c].health <= MAX_HEALTH
  /\ \A c \in DOMAIN players :
       players[c].game_state.health >= 0 /\ players[c].game_state.health <= MAX_HEALTH

\* a fight on the second turn took the last health of a hard-tier player
\* whom an earlier fight had left with 32
HealthClampedAtZero ==
  /\ ret.op = "process_turn" /\ ret.action_type = "COMBAT" /\ ret.outcome = "died"
  /\ turns = 2
  /\ ret.chat_id \in DOMAIN active_games
  /\ active_games[ret.chat_id].difficulty = "hard"
  /\ active_games[ret.chat_id].current_day = 3
  /\ active_games[ret.chat_id].health = 0

\* C2: after any sequence of process_turn calls food >= 0 and water >= 0,
\* also after a REST turn taken with a positive fraction smaller than 1
FoodWaterNonNegative ==
  \A c \in DOMAIN active_games :
    active_games[c].food >= 0 /\ active_games[c].water >= 0

\* C3: once a session was ended by death or victory, every later
\* process_turn of the player returns the no-active-game result and leaves
\* the cached session and the stored row as they are
InactiveIsTerminal ==
  [][\A c \in Players :
       (/\ c \in DOMAIN active_games
        /\ ~active_games[c].game_active
        /\ ret'.op = "process_turn"
        /\ ret'.chat_id = c)
       => (/\ ret'.outcome = "no_active"
           /\ active_games' = active_games
           /\ players' = players)]_vars

\* process_turn was called on a session that a victory had ended
TurnAfterVictory ==
  /\ ret.op = "process_turn" /\ ret.outcome = "no_active"
  /\ ret.chat_id \in DOMAIN active_games
  /\ ~active_games[ret.chat_id].game_active
  /\ active_games[ret.chat_id].health > 0
  /\ active_games[ret.chat_id].current_day = DAYS_TO_WIN
  /\ turns > 0

\* C4: current_day grows by exactly 1 in a process_turn with outcome
\* continue, by 0 in one with outcome died or won, and never decreases
DayAdvance ==
  [][\A c \in Players :
       (ret'.op = "process_turn" /\ ret'.chat_id = c /\ c \in DOMAIN active_games')
       => LET before == CacheAfterGet(c)[c].current_day
              after == active_games'[c].current_day
          IN /\ ret'.outcome = "continue" => after = before + 1
             /\ ret'.outcome \in {"died", "won"} => after = before
             /\ after >= before
             /\ players'[c].current_day = after]_vars

\* one turn ended a session (died or won) that an earlier turn had continued
DayKeptAtTheEnd ==
  /\ ret.op = "process_turn" /\ ret.outcome \in {"died", "won"}
  /\ turns = 2
  /\ ret.chat_id \in DOMAIN active_games
  /\ active_games[ret.chat_id].current_day > 1

\* C5: a process_turn whose action is classified invalid changes neither
\* the cached session (health, food, water, weapons, inventory, current_day,
\* active flag) nor the stored row
InvalidNoMutation ==
  [][(ret'.op = "process_turn" /\ ~ret'.is_valid)
     => (/\ players' = players
         /\ active_games' = CacheAfterGet(ret'.chat_id)
         /\ game_history' = game_history)]_vars

\* an invalid action was returned to a player in a running game that still
\* has food to lose
InvalidRejected ==
  /\ ret.op = "process_turn" /\ ret.outcome = "invalid" /\ ~ret.is_valid
  /\ ret.chat_id \in DOMAIN active_games
  /\ active_games[ret.chat_id].game_active
  /\ active_games[ret.chat_id].food > 0

\* C6: handling a player action that is rejected as invalid leaves the
\* player's message_count as it was
InvalidConsumesNoQuota ==
  [][(ret'.op = "handle_text_input" /\ ~ret'.is_valid)
     => MessageCount(rate_limits', ret'.chat_id)
          = MessageCount(rate_limits, ret'.chat_id)]_vars

\* C7: health <= 0 after the turn's effects means outcome died, the active
\* flag false and current_day not advanced, whatever the day is
DeathHasPriority ==
  [][\A c \in Players :
       (/\ ret'.op = "process_turn" /\ ret'.chat_id = c
        /\ ret'.outcome \notin {"no_active", "invalid"}
        /\ active_games'[c].health <= 0)
       => (/\ ret'.outcome = "died"
           /\ ~active_games'[c].game_active
           /\ ~players'[c].game_active
           /\ active_games'[c].current_day = CacheAfterGet(c)[c].current_day)]_vars

\* a player died on the day DAYS_TO_WIN
DiedOnTheLastDay ==
  /\ ret.op = "process_turn" /\ ret.outcome = "died"
  /\ ret.chat_id \in DOMAIN active_games
  /\ active_games[ret.chat_id].health <= 0
  /\ active_games[ret.chat_id].current_day = DAYS_TO_WIN
  /\ ~active_games[ret.chat_id].game_active

\* C8: a process_turn that ends the session with died or won appends exactly
\* one row to game_history, of that player, with survived_days = current_day
EndAppendsHistory ==
  [][(ret'.op = "process_turn" /\ ret'.outcome \in {"died", "won"})
     => IF Len(game_history') = Len(game_history) + 1
        THEN LET row == game_history'[Len(game_history')]
             IN /\ row.chat_id = ret'.chat_id
                /\ row.survived_days = active_games'[ret'.chat_id].current_day
        ELSE FALSE]_vars

\* C9: an active session at day DAYS_TO_WIN - 1 that completes a valid turn
\* without dying is at day DAYS_TO_WIN and active; an active session at day
\* DAYS_TO_WIN that completes a turn without dying has outcome won, is
\* inactive and still at day DAYS_TO_WIN
WinAtThreshold ==
  [][\A c \in Players :
       (/\ ret'.op = "process_turn" /\ ret'.chat_id = c
        /\ ret'.outcome \notin {"no_active", "invalid", "died"})
       => LET before == CacheAfterGet(c)[c]
              after == active_games'[c]
          IN /\ before.current_day = DAYS_TO_WIN - 1
                  => (/\ ret'.outcome = "continue"
                      /\ after.current_day = DAYS_TO_WIN
                      /\ after.game_active)
             /\ before.current_day = DAYS_TO_WIN
                  => (/\ ret'.outcome = "won"
                      /\ after.current_day = DAYS_TO_WIN
                      /\ ~after.game_active
                      /\ ~players'[c].game_active)]_vars

\* a session that was at day DAYS_TO_WIN - 1 two turns ago has been won
WonAfterTwoTurns ==
  /\ ret.op = "process_turn" /\ ret.outcome = "won"
  /\ turns = 2
  /\ ret.chat_id \in DOMAIN active_games
  /\ active_games[ret.chat_id].current_day = DAYS_TO_WIN
  /\ ~active_games[ret.chat_id].game_active

\* C10: create_new_game appends exactly one row to game_history if the
\* player's session was active at the call, and none otherwise
NewGameArchivesActive ==
  [][\A c \in Players :
       (ret'.op = "create_new_game" /\ ret'.chat_id = c)
       => Len(game_history') =
            Len(game_history) + (IF HasActiveGame(c) THEN 1 ELSE 0)]_vars

\* C11: each player has at most one active session: the cache and the
\* players table hold, under a chat_id, one session of that chat_id and the
\* same one; after create_new_game it is the new session, active, on day 1
OneActiveSession ==
  /\ \A c \in DOMAIN active_games :
       /\ active_games[c].chat_id = c
       /\ c \in DOMAIN players
       /\ FromDict(players[c].game_state) = active_games[c]
       /\ players[c].game_active = active_games[c].game_active
  /\ \A c \in DOMAIN players : players[c].game_state.chat_id = c
  /\ ret.op = "create_new_game"
       => LET c == ret.chat_id
          IN /\ c \in DOMAIN active_games
             /\ active_games[c].game_active
             /\ active_games[c].current_day = 1
             /\ active_games[c].inventory = EmptyDict
             /\ players[c].current_day = 1

\* create_new_game replaced a session that had played two turns
NewGameOverPlayedSession ==
  /\ ret.op = "create_new_game"
  /\ turns = 2
  /\ ret.chat_id \in DOMAIN active_games
  /\ active_games[ret.chat_id].game_active
  /\ players[ret.chat_id].game_active

\* C12: within one reset window the calls of check_rate_limit for a player
\* return remaining = MAX-1, MAX-2, ..., 0 with allowed = true, and after
\* that allowed = false with remaining = 0
WindowQuota ==
  [][\A c \in Players :
       (ret'.op \in {"handle_text_input", "daily_command"} /\ ret'.chat_id = c)
       => IF quota_ret.chat_id = c /\ quota_ret.day = today
          THEN IF quota_ret.remaining > 0
               THEN /\ quota_ret'.is_allowed
                    /\ quota_ret'.remaining = quota_ret.remaining - 1
               ELSE /\ ~quota_ret'.is_allowed
                    /\ quota_ret'.remaining = 0
          ELSE /\ quota_ret'.is_allowed
               /\ quota_ret'.remaining = MAX_MESSAGES_PER_DAY - 1]_vars

\* C13: the first check_rate_limit call of a player after a reset boundary
\* returns allowed = true and remaining = MAX-1 and leaves the counter at 1,
\* whatever the counter was and whether or not reset_rate_limits has run
FirstCallAfterBoundary ==
  [][\A c \in Players :
       (/\ ret'.op \in {"handle_text_input", "daily_command"} /\ ret'.chat_id = c
        /\ today >= 1
        /\ ~(quota_ret.chat_id = c /\ quota_ret.day = today))
       => (/\ quota_ret'.is_allowed
           /\ quota_ret'.remaining = MAX_MESSAGES_PER_DAY - 1
           /\ c \in DOMAIN rate_limits'
           /\ rate_limits'[c].message_count = 1
           /\ rate_limits'[c].last_reset = today)]_vars

\* a first call in the window after the second midnight, made while the
\* DELETE of reset_rate_limits is still due
FirstCallBeforeSweep ==
  /\ today = 2 /\ sweep_due
  /\ ret.op \in {"handle_text_input", "daily_command"}
  /\ quota_ret.chat_id = ret.chat_id /\ quota_ret.day = today
  /\ quota_ret.is_allowed /\ quota_ret.remaining = MAX_MESSAGES_PER_DAY - 1
  /\ rate_limits[ret.chat_id].message_count = 1

\* C14: a check_rate_limit call that returns allowed = false leaves the
\* player's message_count and last_reset as they were
DeniedKeepsCounter ==
  [][(/\ ret'.op \in {"handle_text_input", "daily_command"}
      /\ ~quota_ret'.is_allowed)
     => rate_limits' = rate_limits]_vars

\* a call was denied at the limit
DeniedAtLimit ==
  /\ ret.op = "handle_text_input" /\ ret.outcome = "rate_limited"
  /\ ~quota_ret.is_allowed /\ quota_ret.remaining = 0
  /\ rate_limits[ret.chat_id].message_count = MAX_MESSAGES_PER_DAY

\* C15: handling one text action calls check_rate_limit exactly once, and no
\* other user operation (the daily command in particular) changes the
\* player's message_count
QuotaOnlyByActions ==
  [][\A c \in Players :
       /\ (ret'.op = "handle_text_input" /\ ret'.chat_id = c)
            => rate_limits' = CheckRateLimit(rate_limits, c)
       /\ (ret'.op \in {"daily_command", "process_turn", "create_new_game"})
            => MessageCount(rate_limits', c) = MessageCount(rate_limits, c)]_vars

\* C16: a text action that check_rate_limit denies never reaches
\* process_turn and leaves the session (cache, stored row, history) unchanged
DeniedLeavesSession ==
  [][(ret'.op = "handle_text_input" /\ ~quota_ret'.is_allowed)
     => (/\ active_games' = active_games
         /\ players' = players
         /\ game_history' = game_history
         /\ turns' = turns)]_vars

\* a player in a running game was denied
DeniedInGame ==
  /\ ret.op = "handle_text_input" /\ ret.outcome = "rate_limited"
  /\ ~quota_ret.is_allowed
  /\ HasActiveGame(ret.chat_id)
  /\ active_games[ret.chat_id].food > 0

\* C17: when a scenario generator call made during process_turn fails, the
\* turn is aborted: the session is the same after the call as before it, in
\* the cache and in the players table
OracleFailureAborts ==
  [][\A c \in Players :
       (ret'.op = "process_turn" /\ ret'.outcome = "oracle_error" /\ ret'.chat_id = c)
       => (/\ active_games'[c] = CacheAfterGet(c)[c]
           /\ players'[c].game_state = ToDict(CacheAfterGet(c)[c]))]_vars

\* C18: when the write to the players table fails during process_turn, no
\* effect of the turn stays on the session that later reads return
SaveFailureAborts ==
  [][\A c \in Players :
       (ret'.op = "process_turn" /\ ret'.outcome = "save_error" /\ ret'.chat_id = c)
       => active_games'[c] = CacheAfterGet(c)[c]]_vars

\* C19: cleanup_inactive_games acts on exactly the rows flagged active whose
\* last update is older than the threshold: for each it appends one history
\* row, abandoned, with survived_days = current_day, and marks the row
\* inactive; the other rows and the earlier history are left unchanged
CleanupActsOnStaleActive ==
  [][ret'.op = "startup"
     => LET old == {c \in DOMAIN players : players[c].game_active /\ players[c].stale}
            added == (Len(game_history) + 1)..Len(game_history')
        IN /\ DOMAIN players' = DOMAIN players
           /\ Len(game_history') = Len(game_history) + Cardinality(old)
           /\ \A i \in 1..Len(game_history) : game_history'[i] = game_history[i]
           /\ \A c \in old :
                /\ ~players'[c].game_active
                /\ players'[c].game_state = players[c].game_state
                /\ players'[c].current_day = players[c].current_day
                /\ \E i \in added :
                     /\ game_history'[i].chat_id = c
                     /\ game_history'[i].result = "Game abandoned due to inactivity"
                     /\ game_history'[i].survived_days = players[c].current_day
           /\ \A c \in DOMAIN players \ old : players'[c] = players[c]]_vars

\* the cleanup at a start retired a session that had been played to day 3
RetiredAtStartup ==
  /\ ret.op = "startup"
  /\ Len(game_history) = 1
  /\ game_history[1].survived_days = 3
  /\ game_history[1].result = "Game abandoned due to inactivity"
  /\ ~players[game_history[1].chat_id].game_active
  /\ players[game_history[1].chat_id].current_day = 3

\* C20: once cleanup_inactive_games has retired a player's session, every
\* later process_turn of the player is rejected as no active game and the
\* row's game_active stays false, until create_new_game is called
AbandonedIsTerminal ==
  [][\A c \in Players :
       (/\ c \in DOMAIN players
        /\ ~players[c].game_active
        /\ \E i \in 1..Len(game_history) :
             /\ game_history[i].chat_id = c
             /\ game_history[i].final_state = players[c].game_state
        /\ ret'.op = "process_turn" /\ ret'.chat_id = c)
       => (/\ ret'.outcome = "no_active"
           /\ ~players'[c].game_active)]_vars

\* a coroutine that has read the session and has not yet made its final commit
InFlight == {"process_action", "generate_outcome"}

\* C21: for one player two process_turn invocations never interleave: while
\* an invocation is between its read of the session and its final commit no
\* other invocation for the same chat_id takes a step, and the session the
\* invocation commits is the turn's result on the session it read, which was
\* active
TurnsDoNotInterleave ==
  [][\A t \in TaskIds :
       calls[t].pc \in InFlight =>
         /\ \A u \in TaskIds \ {t} :
              (calls[u].pc # "idle" /\ calls[u].chat_id = calls[t].chat_id)
                => calls'[u] = calls[u]
         /\ (calls[t].pc = "generate_outcome" /\ calls'[t] # calls[t]) =>
              LET c == calls[t].chat_id
              IN /\ calls[t].seen[c].game_active
                 /\ \E d \in DrawsFor(calls[t].action_type) :
                      active_games'[c] = TurnResult(calls[t].seen[c],
                                           calls[t].action_type, calls[t].text, d)
                 /\ players'[c] = Row(active_games'[c])]_vars

\* an invocation has made its final commit while a second invocation for the
\* same player was pending at its entry
CommittedWhileAnotherPending ==
  \E t \in TaskIds, u \in TaskIds :
    /\ t # u
    /\ calls[t].pc = "generate_scenario"
    /\ calls[u].pc = "entered"
    /\ calls[u].chat_id = calls[t].chat_id
    /\ active_games[calls[t].chat_id] # calls[t].seen[calls[t].chat_id]
    /\ players[calls[t].chat_id] = Row(active_games[calls[t].chat_id])

\* C22: the read of the counter, the comparison with MAX_MESSAGES_PER_DAY and
\* the increment of check_rate_limit are atomic with respect to the other
\* check_rate_limit calls of the player: the row a pending call has fetched is
\* still the row of the table when the call decides, and under any
\* interleaving of the calls at most MAX_MESSAGES_PER_DAY of them are allowed
\* in one window
ChecksAreAtomic ==
  /\ granted <= MAX_MESSAGES_PER_DAY
  /\ \A t \in TaskIds :
       calls[t].pc = "check_selected" =>
         LET c == calls[t].chat_id
         IN calls[t].row = IF c \in DOMAIN rate_limits
                           THEN (c :> rate_limits[c]) ELSE EmptyMap

\* a check was refused after MAX_MESSAGES_PER_DAY allowed ones in the window,
\* with another check of the player pending
RefusedWhileAnotherPending ==
  /\ granted = MAX_MESSAGES_PER_DAY
  /\ ret.op = "check_rate_limit"
  /\ ~quota_ret.is_allowed
  /\ quota_ret.day = today
  /\ \E u \in TaskIds :
       calls[u].pc = "check_entered" /\ calls[u].chat_id = quota_ret.chat_id

\* C23: a commit is recoverable: when process_turn or create_new_game has
\* returned with the player's session still active and the process is then
\* restarted, the new GameStateManager caches for that player a session equal
\* field for field to the one the caller observed
CommitIsRecoverable ==
  [][(ret.op \in {"process_turn", "create_new_game"} /\ ret'.op = "startup") =>
       LET c == ret.chat_id
       IN (c \in DOMAIN active_games /\ active_games[c].game_active) =>
            /\ c \in DOMAIN active_games'
            /\ active_games'[c] = active_games[c]]_vars

\* C24: right after the start of the process (the cache loaded and the startup
\* cleanup run) a player has an active session in memory if and only if the
\* players table flags that player's session active
StartupCacheMatchesStore ==
  ret.op = "startup" =>
    \A c \in Players :
      (c \in DOMAIN active_games /\ active_games[c].game_active)
        <=> (c \in DOMAIN players /\ players[c].game_active)

\* C25: a rest action taken when food = 0 or water = 0 mutates nothing:
\* health, food, water, inventory, weapons and current_day of the session are
\* the same after the turn as before it
RestWithoutSuppliesIsNoOp ==
  [][\A c \in Players :
       (/\ ret'.op = "process_turn" /\ ret'.chat_id = c
        /\ ret'.action_type = "REST" /\ ret'.is_valid
        /\ HasActiveGame(c))
       => LET before == CacheAfterGet(c)[c]
              after == active_games'[c]
          IN (before.food = 0 \/ before.water = 0) =>
               /\ after.health = before.health
               /\ after.food = before.food
               /\ after.water = before.water
               /\ after.inventory = before.inventory
               /\ after.weapons = before.weapons
               /\ after.current_day = before.current_day]_vars

\* C26: a rest action taken with food > 0 and water > 0 (and no item used)
\* raises health by min(REST_RECOVERY, MAX_HEALTH - health), never beyond
\* MAX_HEALTH, and the rest itself consumes exactly one unit of food and one
\* unit of water, on top of the turn's depletion
RestHealsByRecovery ==
  [][\A c \in Players :
       (/\ ret'.op = "process_turn" /\ ret'.chat_id = c
        /\ ret'.action_type = "REST" /\ ret'.is_valid
        /\ HasActiveGame(c))
       => LET before == CacheAfterGet(c)[c]
              depleted == Deplete(before, "REST")
              after == active_games'[c]
          IN (/\ depleted.food > 0 /\ depleted.water > 0
              /\ after.inventory = before.inventory) =>
               /\ after.health =
                    before.health + Min(REST_RECOVERY, MAX_HEALTH - before.health)
               /\ after.health <= MAX_HEALTH
               /\ after.food = depleted.food - 1 * Scale
               /\ after.water = depleted.water - 1 * Scale]_vars

\* C27: repeating _save_to_db with an identical session is a no-op for the
\* observable state: after any commit get_player_state and a cold reload of
\* the row return the committed session, and a commit of content the row
\* already holds adds no row and changes neither what get_player_state nor
\* what a cold reload of the store returns
SaveIsIdempotent ==
  [][\A c \in Players :
       (ret'.op = "save_to_db" /\ ret'.chat_id = c) =>
         /\ active_games'[c] = active_games[c]
         /\ c \in DOMAIN players'
         /\ FromDict(players'[c].game_state) = active_games[c]
         /\ players'[c].game_active = active_games[c].game_active
         /\ ret'.outcome = "repeated" =>
              /\ DOMAIN players' = DOMAIN players
              /\ LoadActiveGames(players') = LoadActiveGames(players)
              /\ players'[c].game_state = players[c].game_state]_vars

\* the session a turn had committed was committed once more
CommittedTwice ==
  /\ ret.op = "save_to_db"
  /\ ret.outcome = "repeated"
  /\ turns > 0
  /\ ret.chat_id \in DOMAIN active_games
  /\ active_games[ret.chat_id].game_active
  /\ LoadActiveGames(players)[ret.chat_id] = active_games[ret.chat_id]

\* C28: a session's difficulty never changes after create_new_game: every
\* step other than create_new_game (a turn, a commit, a reload of the cache,
\* the cleanup) leaves the difficulty of the cached session, of the row and of
\* the stored game_state as it was
DifficultyIsImmutable ==
  [][ret'.op # "create_new_game" =>
       \A c \in Players :
         /\ (c \in DOMAIN active_games /\ c \in DOMAIN active_games') =>
              active_games'[c].difficulty = active_games[c].difficulty
         /\ (c \in DOMAIN players /\ c \in DOMAIN players') =>
              /\ players'[c].difficulty = players[c].difficulty
              /\ players'[c].game_state.difficulty = players[c].game_state.difficulty
         /\ (c \in DOMAIN players /\ c \in DOMAIN active_games') =>
              active_games'[c].difficulty = players[c].difficulty]_vars

\* a hard session was played and then reloaded by a restart, still hard
HardSessionReloaded ==
  /\ ret.op = "startup"
  /\ turns > 0
  /\ \E c \in DOMAIN active_games :
       /\ active_games[c].difficulty = "hard"
       /\ active_games[c].current_day > 1
       /\ c \in DOMAIN players
       /\ players[c].difficulty = "hard"
       /\ players[c].game_state.difficulty = "hard"

\* C29: create_new_game builds the session from the profile of the requested
\* tier (initial health, food, water and weapons, current_day 1, empty
\* inventory, active), and the profile table is never mutated: after every
\* step, also one that adds a weapon to a session, the profiles' weapon lists
\* are the ones the table was defined with, so every later new game gets them
NewGameFromPristineProfile ==
  [][/\ profiles' = InitialProfiles
     /\ \A c \in Players :
          (ret'.op = "create_new_game" /\ ret'.chat_id = c) =>
            LET new == active_games'[c]
                settings == DIFFICULTY_LEVELS[new.difficulty]
            IN /\ new.health = settings.initial_health
               /\ new.food = settings.initial_food * Scale
               /\ new.water = settings.initial_water * Scale
               /\ new.weapons = settings.initial_weapons
               /\ new.current_day = 1
               /\ new.inventory = EmptyDict
               /\ new.game_active
               /\ players'[c] = Row(new)]_vars

\* a game created in this run found a weapon on its first turn, and the
\* profile of its tier still has the initial list
WeaponAddedToNewGame ==
  /\ ret.op = "process_turn"
  /\ ret.action_type = "EXPLORE"
  /\ \E c \in DOMAIN active_games :
       LET p == active_games[c]
       IN /\ p.current_day = 2
          /\ p.health = DIFFICULTY_LEVELS[p.difficulty].initial_health
          /\ Len(p.weapons) = Len(DIFFICULTY_LEVELS[p.difficulty].initial_weapons) + 1
          /\ profiles[p.difficulty] = DIFFICULTY_LEVELS[p.difficulty].initial_weapons

\* C30: get_player_state returns the cached session when one is in memory
\* and changes nothing; on a miss it finds a session exactly when the players
\* table holds a row of the player flagged active, returns that row's session
\* and caches it; otherwise it returns not-found and the cache is as before;
\* the players table is never changed
GetPlayerStateSemantics ==
  [][\A c \in Players :
       (ret'.op = "get_player_state" /\ ret'.chat_id = c) =>
         /\ players' = players
         /\ \A k \in DOMAIN active_games :
              k \in DOMAIN active_games' /\ active_games'[k] = active_games[k]
         /\ c \in DOMAIN active_games =>
              ret'.outcome = "cached" /\ active_games' = active_games
         /\ c \notin DOMAIN active_games =>
              IF c \in DOMAIN players /\ players[c].game_active
              THEN /\ ret'.outcome = "loaded"
                   /\ DOMAIN active_games' = DOMAIN active_games \cup {c}
                   /\ ToDict(active_games'[c]) = players[c].game_state
              ELSE /\ ret'.outcome = "not_found"
                   /\ active_games' = active_games]_vars

\* a miss found the player's active row and cached the session stored in it
LoadedOnMiss ==
  /\ ret.op = "get_player_state"
  /\ ret.outcome = "loaded"
  /\ ret.chat_id \in DOMAIN active_games
  /\ players[ret.chat_id].game_active
  /\ active_games[ret.chat_id].current_day > 1
  /\ active_games[ret.chat_id] = FromDict(players[ret.chat_id].game_state)

\* C31: in every process_turn that applies effects the mutated session is
\* committed before the win/lose check and committed again after the
\* termination or day-advance decision: when the turn returns the row is the
\* commit of the cached session, and when the second save fails the row
\* already holds the mutated session the decision was taken on
CommittedBeforeAndAfterCheck ==
  [][\A c \in Players :
       (ret'.op = "process_turn" /\ ret'.chat_id = c) =>
         /\ ret'.outcome \in {"continue", "died", "won"} =>
              players'[c] = Row(active_games'[c])
         /\ (ret'.outcome = "save_error" /\ players' # players) =>
              LET mutated == FromDict(players'[c].game_state)
              IN /\ players'[c] = Row(mutated)
                 /\ active_games'[c] = Terminate(mutated)]_vars

\* the save after the win/lose check failed on a lost fight: the row holds
\* the session with health 0, still active, the cache holds it ended
MutationCommittedBeforeCheck ==
  /\ ret.op = "process_turn"
  /\ ret.outcome = "save_error"
  /\ ret.chat_id \in DOMAIN active_games
  /\ ~active_games[ret.chat_id].game_active
  /\ players[ret.chat_id].game_active
  /\ players[ret.chat_id].game_state.health = 0
  /\ active_games[ret.chat_id].health = 0

\* C32: the depletion of a turn, taken from food and from water, is the
\* tier's resource_depletion_rate times the intensity of the action kind
\* (COMBAT 2.0, MOVE 1.5, EXPLORE 1.2, STEALTH 1.0, REST 0.5, others 1.0),
\* clamped at 0, and it precedes the action's own effect: the supplies found
\* by EXPLORE and the unit consumed by REST apply to the depleted values
DepletionByRateAndIntensity ==
  [][\A c \in Players :
       (/\ ret'.op = "process_turn" /\ ret'.chat_id = c
        /\ ret'.outcome \in {"continue", "died", "won"}
        /\ HasActiveGame(c))
       => LET before == CacheAfterGet(c)[c]
              after == active_games'[c]
              type == ret'.action_type
              tenths == CASE type = "COMBAT"  -> 20
                          [] type = "MOVE"    -> 15
                          [] type = "EXPLORE" -> 12
                          [] type = "REST"    -> 5
                          [] OTHER            -> 10
              rate10 == DIFFICULTY_LEVELS[before.difficulty].resource_depletion_rate10
              use == (rate10 * tenths * Scale) \div 100
              food == Max(0, before.food - use)
              water == Max(0, before.water - use)
          IN CASE type = "EXPLORE" ->
                    /\ after.food - food \in {k * Scale : k \in 0..3}
                    /\ after.water - water \in {k * Scale : k \in 0..3}
               [] type = "REST" ->
                    IF food > 0 /\ water > 0
                    THEN after.food = food - Scale /\ after.water = water - Scale
                    ELSE after.food = food /\ after.water = water
               [] OTHER ->
                    after.food = food /\ after.water = water]_vars

\* an EXPLORE turn on a session without food and water (day 29) found
\* supplies: the depletion was clamped at 0 and the find added to it
FoundAfterClampedDepletion ==
  /\ ret.op = "process_turn"
  /\ ret.action_type = "EXPLORE"
  /\ ret.outcome = "continue"
  /\ active_games[ret.chat_id].current_day = DAYS_TO_WIN
  /\ active_games[ret.chat_id].food = 1 * Scale
  /\ active_games[ret.chat_id].water = 3 * Scale

\* C33: an inventory item is consumed only when the action description
\* references it and its quantity is positive: its effect (Bandages +20,
\* Medicine +40 health, capped at MAX_HEALTH) is then applied and its quantity
\* decreases by exactly one; an item at quantity 0 has no effect and stays at
\* 0; no quantity is ever negative
ItemUseRule ==
  [][\A c \in Players, text \in Texts, scenario \in Scenarios :
       ProcessTurnApply(c, text, scenario) =>
         LET before == CacheAfterGet(c)[c]
             after == active_games'[c]
             type == ProcessAction(text, scenario, before.weapons).action_type
             Had(i) == IF i \in DOMAIN before.inventory THEN before.inventory[i] ELSE 0
             Consumed(i) == i \in DOMAIN before.inventory
                              /\ after.inventory[i] < before.inventory[i]
             heal == (IF Consumed("Bandages") THEN 20 ELSE 0)
                       + (IF Consumed("Medicine") THEN 40 ELSE 0)
         IN /\ \A i \in DOMAIN after.inventory :
                 /\ after.inventory[i] >= 0
                 /\ Consumed(i) =>
                      /\ Lower(i) \in text
                      /\ Had(i) > 0
                      /\ after.inventory[i] = Had(i) - 1
                 /\ (Had(i) = 0 /\ type # "EXPLORE") => after.inventory[i] = 0
            /\ type = "CUSTOM" =>
                 after.health = Min(before.health + heal, MAX_HEALTH)]_vars

\* a turn of this run used the one Bandages a wounded session held at day 3:
\* the quantity is 0 and health is 20 higher
BandagesConsumed ==
  /\ ret.op = "process_turn"
  /\ ret.action_type = "CUSTOM"
  /\ ret.outcome = "continue"
  /\ turns = 1
  /\ \E c \in DOMAIN active_games :
       LET p == active_games[c]
       IN /\ p.current_day = 4
          /\ "Bandages" \in DOMAIN p.inventory
          /\ p.inventory["Bandages"] = 0
          /\ p.health = DIFFICULTY_LEVELS[p.difficulty].initial_health - 28 + 20

\* C34: the history table is append-only and a terminated session is archived
\* at most once: every step keeps the existing records as they are, a
\* player's game_id values are distinct and increase in append order, and,
\* no new game being created, a player's one game has at most one record
HistoryAppendOnlyOncePerGame ==
  [][/\ Len(game_history') >= Len(game_history)
     /\ \A i \in 1..Len(game_history) : game_history'[i] = game_history[i]
     /\ \A i, j \in 1..Len(game_history') :
          (i < j /\ game_history'[i].chat_id = game_history'[j].chat_id) =>
            game_history'[i].game_id < game_history'[j].game_id
     /\ \A i, j \in 1..Len(game_history') :
          game_history'[i].chat_id = game_history'[j].chat_id => i = j]_vars

\* C35: between the operations (no turn in flight) the cache and the players
\* table agree on every cached session: the row's game_active column equals
\* the session's game_active and the row's game_state is the serialized
\* session
CacheAgreesWithStore ==
  \A c \in DOMAIN active_games :
    /\ c \in DOMAIN players
    /\ players[c].game_active = active_games[c].game_active
    /\ players[c].game_state = ToDict(active_games[c])

\* C36: every game ends within a bounded number of turns: current_day of a
\* session lies between 1 and DAYS_TO_WIN, every applied turn with outcome
\* continue raises it by exactly one and every other applied turn ends the
\* session, so a game that starts at day 1 has at most DAYS_TO_WIN - 1 turns
\* with outcome continue and then one with outcome won or died
GameIsBounded ==
  [][/\ \A c \in DOMAIN active_games' :
          /\ active_games'[c].current_day >= 1
          /\ active_games'[c].current_day <= DAYS_TO_WIN
     /\ \A c \in Players :
          (/\ ret'.op = "process_turn" /\ ret'.chat_id = c
           /\ ret'.outcome \in {"continue", "died", "won"}
           /\ HasActiveGame(c))
          => LET before == CacheAfterGet(c)[c]
                 after == active_games'[c]
             IN IF ret'.outcome = "continue"
                THEN /\ after.game_active
                     /\ after.current_day = before.current_day + 1
                     /\ DAYS_TO_WIN - after.current_day
                          < DAYS_TO_WIN - before.current_day
                ELSE /\ ~after.game_active
                     /\ after.current_day = before.current_day]_vars

\* the turn of day DAYS_TO_WIN - 1 was applied with outcome continue: the
\* session is at its last day, still active
LastDayReached ==
  /\ ret.op = "process_turn"
  /\ ret.outcome = "continue"
  /\ turns = 1
  /\ active_games[ret.chat_id].game_active
  /\ active_games[ret.chat_id].current_day = DAYS_TO_WIN

\* C37: only a COMBAT turn can lower health: after an applied turn of any
\* other kind health is at least what it was before, also when food or water
\* is 0, and the outcome died occurs only on a COMBAT turn
OnlyCombatLowersHealth ==
  [][\A c \in Players :
       (/\ ret'.op = "process_turn" /\ ret'.chat_id = c
        /\ ret'.outcome \in {"continue", "died", "won"}
        /\ HasActiveGame(c))
       => LET before == CacheAfterGet(c)[c]
              after == active_games'[c]
          IN /\ ret'.action_type # "COMBAT" => after.health >= before.health
             /\ ret'.outcome = "died" => ret'.action_type = "COMBAT"
             /\ after.health < before.health => ret'.action_type = "COMBAT"]_vars

\* a session without food and water (day 29) was explored and nothing was
\* found: the turn was applied and health is what it was
ExploredWithoutSupplies ==
  /\ ret.op = "process_turn"
  /\ ret.action_type = "EXPLORE"
  /\ ret.outcome = "continue"
  /\ turns = 1
  /\ \E c \in DOMAIN active_games :
       LET p == active_games[c]
       IN /\ p.current_day = DAYS_TO_WIN
          /\ p.food = 0
          /\ p.water = 0
          /\ p.health = DIFFICULTY_LEVELS[p.difficulty].initial_health

\* C38: a session's weapon list never holds a weapon twice and never loses
\* one: after every process_turn it is the list of before, or that list with
\* one weapon appended that was not in it
WeaponsOnlyGrowDistinct ==
  [][\A c \in Players :
       (ret'.op = "process_turn" /\ ret'.chat_id = c /\ HasActiveGame(c)) =>
         LET before == CacheAfterGet(c)[c].weapons
             after == active_games'[c].weapons
         IN /\ \/ after = before
               \/ /\ Len(after) = Len(before) + 1
                  /\ SubSeq(after, 1, Len(before)) = before
                  /\ \A i \in 1..Len(before) : before[i] # after[Len(after)]
            /\ \A i, j \in 1..Len(after) : after[i] = after[j] => i = j
            /\ players'[c].game_state.weapons = after]_vars

\* two EXPLORE turns each found a weapon the session did not hold: the list
\* has three different weapons
ThreeWeapons ==
  /\ ret.op = "process_turn"
  /\ ret.action_type = "EXPLORE"
  /\ turns = 2
  /\ \E c \in DOMAIN active_games :
       LET weapons == active_games[c].weapons
       IN /\ Len(weapons) = 3
          /\ weapons[1] = DIFFICULTY_LEVELS[active_games[c].difficulty].initial_weapons[1]
          /\ weapons[1] # weapons[2] /\ weapons[1] # weapons[3] /\ weapons[2] # weapons[3]

=============================================================================
